---- MODULE Spec2Model ----
(***************************************************************************)
(* Model of dataroma_scraper.py: a sequential scraper that collects the    *)
(* manager links of an index page, keeps the managers whose detail page    *)
(* reports the period Q4 2025, extracts the Buy/Add rows of the holdings   *)
(* table and writes them to one spreadsheet.                               *)
(*                                                                         *)
(* Text is modelled as a sequence of one-character strings, so that        *)
(* substring tests, case folding and the regular expressions of the source *)
(* are computed character by character.  The en dash of the ticker         *)
(* pattern is the character "ndash".                                       *)
(***************************************************************************)
EXTENDS Integers, Sequences, FiniteSets, TLC

VARIABLES pc, soup, manager_name, managers, i, all_records, q4_count,
          skip_count, records, accepted, log, requests, files, summary,
          exit_code

vars == <<pc, soup, manager_name, managers, i, all_records, q4_count,
          skip_count, records, accepted, log, requests, files, summary,
          exit_code>>

(***************************************************************************)
(* Bounds of the explored inputs.                                          *)
(***************************************************************************)
MaxAnchors == 3
MaxTextNodes == 2
MaxHeaderCells == 2
MaxRows == 2
MaxIndexAnchors == 2

(***************************************************************************)
(* Characters and strings (str methods of Python used by the source).      *)
(***************************************************************************)
UpperSeq == <<"A","B","C","D","E","F","G","H","I","J","K","L","M","N","O","P","Q","R","S","T","U","V","W","X","Y","Z">>
LowerSeq == <<"a","b","c","d","e","f","g","h","i","j","k","l","m","n","o","p","q","r","s","t","u","v","w","x","y","z">>
UpperSet == {UpperSeq[k] : k \in 1..26}
LowerSet == {LowerSeq[k] : k \in 1..26}
DigitSet == {"0", "1", "2", "3", "4", "5", "6", "7", "8", "9"}
SpaceSet == {" ", "\t", "\n"}
WordSet == UpperSet \cup LowerSet \cup DigitSet \cup {"_"}

ToLower == [c \in UpperSet |-> LowerSeq[CHOOSE k \in 1..26 : UpperSeq[k] = c]]
ToUpper == [c \in LowerSet |-> UpperSeq[CHOOSE k \in 1..26 : LowerSeq[k] = c]]

LowerChar(c) == IF c \in UpperSet THEN ToLower[c] ELSE c
UpperChar(c) == IF c \in LowerSet THEN ToUpper[c] ELSE c

\* str.lower() and str.upper()
lower(s) == [k \in 1..Len(s) |-> LowerChar(s[k])]
upper(s) == [k \in 1..Len(s) |-> UpperChar(s[k])]

SetMin(S) == CHOOSE x \in S : \A y \in S : x <= y
SetMax(S) == CHOOSE x \in S : \A y \in S : x >= y

\* sub in s
Contains(s, sub) ==
    \E p \in 0..(Len(s) - Len(sub)) : SubSeq(s, p + 1, p + Len(sub)) = sub

\* s.startswith(prefix)
StartsWith(s, prefix) ==
    Len(prefix) <= Len(s) /\ SubSeq(s, 1, Len(prefix)) = prefix

\* s[:n]
Take(s, n) == SubSeq(s, 1, IF Len(s) < n THEN Len(s) ELSE n)

\* s.strip()
Strip(s) ==
    LET ink == {k \in 1..Len(s) : s[k] \notin SpaceSet}
    IN  IF ink = {} THEN <<>> ELSE SubSeq(s, SetMin(ink), SetMax(ink))

\* Concatenation of a sequence of strings.
RECURSIVE Concat(_)
Concat(ss) == IF ss = <<>> THEN <<>> ELSE Head(ss) \o Concat(Tail(ss))

\* sep.join(ss)
RECURSIVE Join(_, _)
Join(sep, ss) ==
    IF ss = <<>> THEN <<>>
    ELSE IF Len(ss) = 1 THEN Head(ss)
    ELSE Head(ss) \o sep \o Join(sep, Tail(ss))

\* The strings of a node as get_text(sep, strip=True) joins them: each text
\* node stripped, the empty ones dropped.
StrippedStrings(ss) ==
    SelectSeq([k \in 1..Len(ss) |-> Strip(ss[k])], LAMBDA t : t # <<>>)

(***************************************************************************)
(* Regular expressions: a pattern maps a set of positions (the number of   *)
(* characters consumed so far) to the set of positions after it.  A        *)
(* search succeeds iff some start position leads to some end position, as  *)
(* a backtracking matcher finds a match iff one exists.                    *)
(***************************************************************************)
Positions(s) == 0..Len(s)

\* A literal under re.IGNORECASE.
ReLitI(s, P, lit) ==
    {p + Len(lit) : p \in {q \in P : /\ q + Len(lit) <= Len(s)
                                     /\ \A k \in 1..Len(lit) :
                                           LowerChar(s[q + k]) = LowerChar(lit[k])}}

\* One character of a class.
ReClass(s, P, class) == {p + 1 : p \in {q \in P : q < Len(s) /\ s[q + 1] \in class}}

\* x* and x+ for a character class x.
ReClassStar(s, P, class) ==
    {q \in Positions(s) : \E p \in P : p <= q /\ \A k \in (p + 1)..q : s[k] \in class}
ReClassPlus(s, P, class) == ReClassStar(s, ReClass(s, P, class), class)

\* .* (the dot matches every character but a newline)
ReDotStar(s, P) ==
    {q \in Positions(s) : \E p \in P : p <= q /\ \A k \in (p + 1)..q : s[k] # "\n"}

(***************************************************************************)
(* Module constants (lines 17-31).                                         *)
(***************************************************************************)
BASE_URL == <<"h","t","t","p","s",":","/","/","w","w","w",".","d","a","t","a","r","o","m","a",".","c","o","m">>
MANAGERS_URL == BASE_URL \o <<"/","m","/","m","a","n","a","g","e","r","s",".","p","h","p">>
OUTPUT_FILE == <<"d","a","t","a","r","o","m","a","_","q","4","_","2","0","2","5","_","b","u","y","s",".","x","l","s","x">>
SHEET_NAME == <<"Q","4"," ","2","0","2","5"," ","B","u","y","s">>

\* A page with nothing on it; the value of soup where no page is held.
NoSoup == [anchors |-> <<>>, texts |-> <<>>, tables |-> <<>>]

(***************************************************************************)
(* get_manager_links (lines 56-77), for a fetched index page.              *)
(***************************************************************************)
\* soup.select("a[href*='holdings.php?m=']")
select_links(page) ==
    SelectSeq(page.anchors, LAMBDA a : Contains(a.href, <<"h","o","l","d","i","n","g","s",".","p","h","p","?","m","=">>))

\* link.get_text(strip=True)
link_name(link) == Concat(StrippedStrings(<<link.text>>))

\* BASE_URL + href if href.startswith("/") else href
full_url(href) == IF StartsWith(href, <<"/">>) THEN BASE_URL \o href ELSE href

\* not (not href or not name)
keep_link(href, name) == href # <<>> /\ name # <<>>

\* The loop of lines 60-66.
collect_managers(page) ==
    LET sel == select_links(page)
        F[k \in 0..Len(sel)] ==
            IF k = 0 THEN <<>>
            ELSE LET href == sel[k].href
                     name == link_name(sel[k])
                 IN  IF ~keep_link(href, name) THEN F[k - 1]
                     ELSE Append(F[k - 1], [name |-> name, url |-> full_url(href)])
    IN  F[Len(sel)]

\* A deduplication that keeps the last entry of a URL instead of the first.
dedup_KeepLast(ms) ==
    LET F[k \in 0..Len(ms)] ==
            IF k = 0 THEN <<>>
            ELSE SelectSeq(F[k - 1], LAMBDA m : m.url # ms[k].url) \o <<ms[k]>>
    IN  F[Len(ms)]
\* The loop of lines 69-74: seen is the set of URLs of unique.
dedup(ms) ==
    LET F[k \in 0..Len(ms)] ==
            IF k = 0 THEN <<>>
            ELSE IF ms[k].url \in {F[k - 1][j].url : j \in 1..Len(F[k - 1])}
                 THEN F[k - 1]
                 ELSE Append(F[k - 1], ms[k])
    IN  F[Len(ms)]

get_manager_links(page) == dedup(collect_managers(page))

(***************************************************************************)
(* Markup.  A page holds anchors, free text nodes and tables; a table has  *)
(* an id, a class and rows; a row is a sequence of cells; a cell has a     *)
(* tag (th or td), a text node and the <a> elements inside it.             *)
(***************************************************************************)
\* The text nodes of a cell, in document order.
cell_strings(cell) == <<cell.text>> \o [k \in 1..Len(cell.a) |-> cell.a[k].text]

RECURSIVE row_strings(_)
row_strings(row) ==
    IF row = <<>> THEN <<>> ELSE cell_strings(Head(row)) \o row_strings(Tail(row))

RECURSIVE rows_strings(_)
rows_strings(rows) ==
    IF rows = <<>> THEN <<>> ELSE row_strings(Head(rows)) \o rows_strings(Tail(rows))

RECURSIVE tables_strings(_)
tables_strings(tables) ==
    IF tables = <<>> THEN <<>>
    ELSE rows_strings(Head(tables).rows) \o tables_strings(Tail(tables))

\* node.get_text(" ", strip=True) for a node with these text nodes
get_text(strings) == Join(<<" ">>, StrippedStrings(strings))

page_strings(page) ==
    page.texts \o [k \in 1..Len(page.anchors) |-> page.anchors[k].text]
               \o tables_strings(page.tables)

(***************************************************************************)
(* is_q4_2025 (lines 80-99).                                               *)
(***************************************************************************)
Separators == {"/", "-"}

\* A day alternative without the 30th.
day_OnlyLast(s, P) == ReLitI(s, P, <<"3","1">>)
\* (?:31|30)
day(s, P) == ReLitI(s, P, <<"3","1">>) \cup ReLitI(s, P, <<"3","0">>)

\* Dec(?:ember)?
month(s, P) ==
    LET d == ReLitI(s, P, <<"D","e","c">>) IN d \cup ReLitI(s, d, <<"e","m","b","e","r">>)

\* r"Q4\s*2025"
pattern_quarter(s) ==
    ReLitI(s, ReClassStar(s, ReLitI(s, Positions(s), <<"Q","4">>), SpaceSet), <<"2","0","2","5">>) # {}

\* r"(?:31|30)\s*Dec(?:ember)?\s*2025"
pattern_day_month(s) ==
    LET a == ReClassStar(s, day(s, Positions(s)), SpaceSet)
        b == ReClassStar(s, month(s, a), SpaceSet)
    IN  ReLitI(s, b, <<"2","0","2","5">>) # {}

\* r"Dec(?:ember)?\s*(?:31|30),?\s*2025"
pattern_month_day(s) ==
    LET a == ReClassStar(s, month(s, Positions(s)), SpaceSet)
        b == day(s, a)
        c == ReClassStar(s, b \cup ReLitI(s, b, <<",">>), SpaceSet)
    IN  ReLitI(s, c, <<"2","0","2","5">>) # {}

\* r"12[/\-]31[/\-]2025"
pattern_mdy(s) ==
    LET a == ReClass(s, ReLitI(s, Positions(s), <<"1","2">>), Separators)
        b == ReClass(s, ReLitI(s, a, <<"3","1">>), Separators)
    IN  ReLitI(s, b, <<"2","0","2","5">>) # {}

\* r"2025[/\-]12[/\-]31"
pattern_ymd(s) ==
    LET a == ReClass(s, ReLitI(s, Positions(s), <<"2","0","2","5">>), Separators)
        b == ReClass(s, ReLitI(s, a, <<"1","2">>), Separators)
    IN  ReLitI(s, b, <<"3","1">>) # {}

\* r"Portfolio\s+date[:\s]+.*2025[/\-]12"
pattern_portfolio_date(s) ==
    LET a == ReClassPlus(s, ReLitI(s, Positions(s), <<"P","o","r","t","f","o","l","i","o">>), SpaceSet)
        b == ReClassPlus(s, ReLitI(s, a, <<"d","a","t","e">>), SpaceSet \cup {":"})
        c == ReClass(s, ReLitI(s, ReDotStar(s, b), <<"2","0","2","5">>), Separators)
    IN  ReLitI(s, c, <<"1","2">>) # {}

is_q4_2025(page) ==
    LET page_text == get_text(page_strings(page))
    IN  \/ pattern_quarter(page_text)
        \/ pattern_day_month(page_text)
        \/ pattern_month_day(page_text)
        \/ pattern_mdy(page_text)
        \/ pattern_ymd(page_text)
        \/ pattern_portfolio_date(page_text)

(***************************************************************************)
(* parse_holdings (lines 102-213).                                         *)
(***************************************************************************)
\* The first of the elements found, as a sequence of length 0 (None) or 1.
FirstOf(hits) == IF hits = <<>> THEN <<>> ELSE <<Head(hits)>>

\* The slice length of line 116.
HeaderTextLimit == 200

\* Lines 109-119: by id, then by class, then by the leading text.
find_table(page) ==
    LET byId == FirstOf(SelectSeq(page.tables, LAMBDA t : t.id = <<"g","r","i","d">>))
        byClass == FirstOf(SelectSeq(page.tables, LAMBDA t : t.class = <<"h","o","l","d","i","n","g","s">>))
        byText == FirstOf(SelectSeq(page.tables,
                        LAMBDA t :
                          LET header_text ==
                                Take(get_text(rows_strings(t.rows)), HeaderTextLimit)
                          IN  Contains(header_text, <<"S","t","o","c","k">>)
                                /\ Contains(header_text, <<"A","c","t","i","v","i","t","y">>)))
    IN  IF byId # <<>> THEN byId
        ELSE IF byClass # <<>> THEN byClass
        ELSE byText

\* Lines 130-132.
header_texts(header_row) ==
    [k \in 1..Len(header_row) |-> lower(get_text(cell_strings(header_row[k])))]

\* dict assignment and dict.get(key, default)
Put(map, key, value) ==
    [x \in DOMAIN map \cup {key} |-> IF x = key THEN value ELSE map[x]]
Get(map, key, default) == IF key \in DOMAIN map THEN map[key] ELSE default

EmptyMap == [x \in {} |-> 0]

\* Line 143.
is_reported_header(h) ==
    Contains(h, <<"r","e","p","o","r","t","e","d">>) \/ (Contains(h, <<"p","r","i","c","e">>) /\ Contains(h, <<"r","e","p","o","r","t","e","d">>))

\* One iteration of the loop of lines 136-146, for header h at index idx.
map_header(col_map, idx, h) ==
    IF Contains(h, <<"s","t","o","c","k">>) THEN Put(col_map, "stock", idx)
    ELSE IF Contains(h, <<"a","c","t","i","v","i","t","y">>) THEN Put(col_map, "activity", idx)
    ELSE IF Contains(h, <<"p","o","r","t","f","o","l","i","o">>) /\ Contains(h, <<"%">>)
         THEN Put(col_map, "portfolio_pct", idx)
    ELSE IF is_reported_header(h) THEN Put(col_map, "price", idx)
    ELSE IF Contains(h, <<"p","r","i","c","e">>) /\ "price" \notin DOMAIN col_map
         THEN Put(col_map, "price", idx)
    ELSE col_map

\* Lines 135-146; indices count from 0 as in the source.
column_map(headers) ==
    LET F[k \in 0..Len(headers)] ==
            IF k = 0 THEN EmptyMap ELSE map_header(F[k - 1], k - 1, headers[k])
    IN  F[Len(headers)]

\* The default column indices of lines 159, 182, 194 and 200.
DefaultStockIdx == 1
DefaultActivityIdx == 4
DefaultPctIdx == 2
DefaultPriceIdx == 5
\* The least number of cells of a data row (line 152).
MinCells == 3
\* The longest ticker of the pattern of line 177.
MaxTickerLen == 5

\* cells[idx].get_text(" ", strip=True) if idx < len(cells), else ""
cell_text(cells, idx) ==
    IF idx < Len(cells) THEN get_text(cell_strings(cells[idx + 1])) ELSE <<>>

SymClass == UpperSet \cup LowerSet \cup {"."}

\* re.search(r"[?&]sym=([A-Z.]+)", link_href, re.IGNORECASE): group 1 of the
\* leftmost match, as a sequence of length 0 (no match) or 1.
sym_search(link_href) ==
    LET s == link_href
        After(p) == ReLitI(s, ReClass(s, {p}, {"?", "&"}), <<"s","y","m","=">>)
        starts == {p \in Positions(s) : ReClassPlus(s, After(p), SymClass) # {}}
    IN  IF starts = {} THEN <<>>
        ELSE LET q == SetMin(After(SetMin(starts)))
             IN  <<SubSeq(s, q + 1, SetMax(ReClassPlus(s, {q}, SymClass)))>>

\* \b at position e of s
WordBoundary(s, e) ==
    (e > 0 /\ s[e] \in WordSet) # (e < Len(s) /\ s[e + 1] \in WordSet)

\* re.search(r"[-–]\s*([A-Z]{1,5})\b", stock_text): group 1 of the leftmost
\* match (greedy \s*, then the longest run the \b allows).
ticker_search(stock_text) ==
    LET s == stock_text
        Groups(p) ==
            LET spaces == ReClassStar(s, ReClass(s, {p}, {"-", "ndash"}), SpaceSet)
            IN  UNION {{<<q, e>> : e \in {x \in (q + 1)..(q + MaxTickerLen) :
                                            /\ x <= Len(s)
                                            /\ \A k \in (q + 1)..x : s[k] \in UpperSet
                                            /\ WordBoundary(s, x)}} : q \in spaces}
        starts == {p \in Positions(s) : Groups(p) # {}}
    IN  IF starts = {} THEN <<>>
        ELSE LET g == Groups(SetMin(starts))
                 q == SetMax({x[1] : x \in g})
                 e == SetMax({x[2] : x \in {y \in g : y[1] = q}})
             IN  <<SubSeq(s, q + 1, e)>>

\* Lines 156-168: the stock text of a row.
stock_text_of(cells, col_map) ==
    LET stock_idx == Get(col_map, "stock", DefaultStockIdx)
    IN  IF stock_idx < Len(cells)
        THEN LET stock_cell == cells[stock_idx + 1]
             IN  IF stock_cell.a # <<>>
                 THEN get_text(<<stock_cell.a[1].text>>)
                 ELSE get_text(cell_strings(stock_cell))
        ELSE <<>>

\* Lines 157-179: the ticker of a row.
ticker_of(cells, col_map) ==
    LET stock_idx == Get(col_map, "stock", DefaultStockIdx)
        links == IF stock_idx < Len(cells) THEN cells[stock_idx + 1].a ELSE <<>>
        sym_match == IF links = <<>> THEN <<>> ELSE sym_search(links[1].href)
        from_link == IF sym_match = <<>> THEN <<>> ELSE upper(sym_match[1])
        ticker_match == ticker_search(stock_text_of(cells, col_map))
    IN  IF from_link # <<>> THEN from_link
        ELSE IF ticker_match # <<>> THEN ticker_match[1]
        ELSE <<>>

\* A filter that skips the lower-casing of line 188.
is_buy_or_add_NoLower(activity_text) ==
    Contains(activity_text, <<"b","u","y">>) \/ Contains(activity_text, <<"a","d","d">>)
\* Lines 188-189.
is_buy_or_add(activity_text) ==
    LET activity_lower == lower(activity_text)
    IN  Contains(activity_lower, <<"b","u","y">>) \/ Contains(activity_lower, <<"a","d","d">>)

HoldingRecord(manager, stock, ticker, activity, pct, price) ==
    [c \in {"Manager", "Stock", "Ticker", "Recent Activity", "Portfolio %",
            "Reported Price"} |->
        CASE c = "Manager" -> manager
          [] c = "Stock" -> stock
          [] c = "Ticker" -> ticker
          [] c = "Recent Activity" -> activity
          [] c = "Portfolio %" -> pct
          [] c = "Reported Price" -> price]

\* The body of the loop of lines 150-211 for one row: the records it appends.
parse_row(row, col_map, name) ==
    LET cells == SelectSeq(row, LAMBDA c : c.tag = "td")
        activity_text == cell_text(cells, Get(col_map, "activity", DefaultActivityIdx))
    IN  IF Len(cells) < MinCells THEN <<>>
        ELSE IF ~is_buy_or_add(activity_text) THEN <<>>
        ELSE <<HoldingRecord(name,
                             Strip(stock_text_of(cells, col_map)),
                             ticker_of(cells, col_map),
                             activity_text,
                             cell_text(cells, Get(col_map, "portfolio_pct", DefaultPctIdx)),
                             cell_text(cells, Get(col_map, "price", DefaultPriceIdx)))>>

\* The column map parse_holdings builds for a table (lines 126-146).
table_column_map(table) == column_map(header_texts(table.rows[1]))

\* parse_holdings(soup, manager_name): the records returned.
parse_holdings(page, name) ==
    LET found == find_table(page)
    IN  IF found = <<>> THEN <<>>
        ELSE IF found[1].rows = <<>> THEN <<>>
        ELSE LET rows == Tail(found[1].rows)
                 col_map == table_column_map(found[1])
                 F[k \in 0..Len(rows)] ==
                     IF k = 0 THEN <<>>
                     ELSE F[k - 1] \o parse_row(rows[k], col_map, name)
             IN  F[Len(rows)]

\* Whether parse_holdings prints the warning of line 122.
table_missing(page) == find_table(page) = <<>>

(***************************************************************************)
(* The orchestrator main (lines 216-290).                                  *)
(***************************************************************************)
\* if not managers (line 228)
\* A check that never finds the list empty.
no_managers_Never(ms) == FALSE
no_managers(ms) == ms = <<>>

\* The for loop of line 241 is over once done entities have been visited.
\* A loop that stops one manager early.
loop_over_SkipsLast(done, ms) == done + 1 >= Len(ms)
loop_over(done, ms) == done = Len(ms)

\* Lines 260-266: both branches count the entity as a Q4 2025 manager.
\* A count of the managers with records only.
q4_count_after_OnlyFound(count, recs) == IF recs # <<>> THEN count + 1 ELSE count
q4_count_after(count, recs) == IF recs # <<>> THEN count + 1 ELSE count + 1

\* The console line of lines 262 and 265.
found_line(recs) == IF recs # <<>> THEN "Found" ELSE "NoBuyAdd"

\* if all_records (line 277)
\* An export that is not conditional.
should_export_Always(recs) == TRUE
should_export(recs) == recs # <<>>

\* The keys of a record in the order of the dict literal (lines 204-211),
\* which is the column order of pd.DataFrame(all_records).
RecordKeys == <<"Manager", "Stock", "Ticker", "Recent Activity", "Portfolio %",
                "Reported Price">>

\* columns (lines 280-281)
columns == <<"Manager", "Stock", "Ticker", "Recent Activity", "Portfolio %",
             "Reported Price">>

\* Lines 278-284: the sheet written by df.to_excel.
export(recs) ==
    LET df_columns == {RecordKeys[k] : k \in 1..Len(RecordKeys)}
        kept == SelectSeq(columns, LAMBDA c : c \in df_columns)
    IN  [name |-> OUTPUT_FILE,
         sheet |-> SHEET_NAME,
         columns |-> kept,
         rows |-> [k \in 1..Len(recs) |-> [j \in 1..Len(kept) |-> recs[k][kept[j]]]]]

\* What session.get produced for a URL: a failure (fetch_page returns None,
\* lines 40-42) or a page (line 39).
Failed(url) == [url |-> url, ok |-> FALSE, page |-> NoSoup]
Fetched(url, page) == [url |-> url, ok |-> TRUE, page |-> page]

(***************************************************************************)
(* Inputs.                                                                 *)
(***************************************************************************)
SeqsUpTo(S, n) == UNION {[1..k -> S] : k \in 0..n}

Anchor(href, text) == [href |-> href, text |-> text]
Td(text) == [tag |-> "td", text |-> text, a |-> <<>>]
Th(text) == [tag |-> "th", text |-> text, a |-> <<>>]
TdLink(href, text) == [tag |-> "td", text |-> <<>>, a |-> <<Anchor(href, text)>>]
Table(id, class, rows) == [id |-> id, class |-> class, rows |-> rows]
Page(anchors, texts, tables) == [anchors |-> anchors, texts |-> texts, tables |-> tables]

\* Index pages of the link collector.
LinkHrefs == {<<"/","m","/","h","o","l","d","i","n","g","s",".","p","h","p","?","m","=","B","R","K">>, <<"h","t","t","p","s",":","/","/","w","w","w",".","d","a","t","a","r","o","m","a",".","c","o","m","/","m","/","h","o","l","d","i","n","g","s",".","p","h","p","?","m","=","B","R","K">>,
              <<"/","m","/","h","o","l","d","i","n","g","s",".","p","h","p","?","m","=","A","K","O">>, <<"/","m","/","h","o","m","e",".","p","h","p">>}
LinkTexts == {<<>>, <<" ","A","l"," ">>, <<"B","o">>}
LinkAnchors == {Anchor(h, t) : h \in LinkHrefs, t \in LinkTexts}
LinkPages == {Page(as, <<>>, <<>>) : as \in SeqsUpTo(LinkAnchors, MaxAnchors)}

\* Page texts of the period filter.
ListedMentions == {<<"Q","4"," ","2","0","2","5">>, <<"3","1"," ","D","e","c"," ","2","0","2","5">>, <<"D","e","c","e","m","b","e","r"," ","3","1",","," ","2","0","2","5">>, <<"1","2","/","3","1","/","2","0","2","5">>,
                   <<"2","0","2","5","-","1","2","-","3","1">>}
TargetMentions == ListedMentions \cup {<<"q","4"," "," ","2","0","2","5">>, <<"D","E","C","E","M","B","E","R"," ","3","1"," ","2","0","2","5">>, <<"2","0","2","5","/","1","2","/","3","1">>}
OtherAcceptedMentions == {<<"3","0"," ","D","e","c"," ","2","0","2","5">>, <<"D","e","c"," ","3","0",","," ","2","0","2","5">>, <<"P","o","r","t","f","o","l","i","o"," ","d","a","t","e",":"," ","2","0","2","5","-","1","2","-","1","5">>}
RejectedMentions == {<<"Q","3"," ","2","0","2","5">>, <<"1","2","/","3","1","/","2","0","2","4">>, <<"P","e","r","i","o","d",":">>}
PeriodTexts == TargetMentions \cup OtherAcceptedMentions \cup RejectedMentions
PeriodPages == {Page(<<>>, ts, <<>>) : ts \in SeqsUpTo(PeriodTexts, MaxTextNodes)}

\* Tables of the table extractor.
HeaderCells == {Th(<<"S","t","o","c","k">>), Th(<<"R","e","c","e","n","t"," ","A","c","t","i","v","i","t","y">>), Th(<<"R","e","p","o","r","t","e","d"," ","P","r","i","c","e","*">>),
                Th(<<"C","u","r","r","e","n","t"," ","P","r","i","c","e">>), Th(<<"D","a","t","e"," ","R","e","p","o","r","t","e","d">>)}
RowApple == <<Td(<<>>), TdLink(<<"/","m","/","s","t","o","c","k",".","p","h","p","?","s","y","m","=","A","A","P","L">>, <<"A","p","p","l","e"," ","I","n","c",".">>), Td(<<"5",".","2","%">>),
              Td(<<"1","0","0">>), Td(<<"B","u","y">>), Td(<<"$","1","5","0",".","0","0">>)>>
RowAlpha == <<Td(<<"x">>), Td(<<"A","l","p","h","a"," ","-"," ","B","E","T","A"," ","C","o","r","p">>), Td(<<"1","%">>), Td(<<>>),
              Td(<<"A","d","d"," ","3",".","2","%">>), Td(<<"$","1">>)>>
RowShort == <<Td(<<"A","p","p","l","e"," ","I","n","c"," ","-"," ","A","A","P","L">>), Td(<<"B","U","Y">>), Td(<<"5",".","2","%">>)>>
RowSell == <<Th(<<"B","u","y">>), Td(<<"C","o","c","a","-","C","o","l","a"," ","C","o"," ","-"," ","K","O">>), Td(<<"S","e","l","l">>), Td(<<"2","%">>), Td(<<>>),
             Td(<<"S","e","l","l">>), Td(<<"$","6","0">>)>>
RowTwoCells == <<Td(<<"B","u","y">>), Td(<<"A","d","d">>)>>
RowLongToken == <<Td(<<"a","d","d">>), TdLink(<<"/","m","/","s","t","o","c","k",".","p","h","p","?","x","=","1","&","s","y","m","=","b","r","k","-","b">>, <<"B","e","r","k","s","h","i","r","e"," ","-"," ","A","B","C","D","E","F","G">>),
                  Td(<<"3","%">>), Td(<<"9">>)>>
DataRows == {RowApple, RowAlpha, RowShort, RowSell, RowTwoCells, RowLongToken}
HoldingsTables == {Table(<<"g","r","i","d">>, <<>>, <<h>> \o rs) :
                     h \in SeqsUpTo(HeaderCells, MaxHeaderCells),
                     rs \in SeqsUpTo(DataRows, MaxRows)}
HoldingsPages == {Page(<<>>, <<>>, <<t>>) : t \in HoldingsTables}

\* Pages served to the orchestrator.
MainAnchors == {Anchor(<<"/","m","/","h","o","l","d","i","n","g","s",".","p","h","p","?","m","=","B","R","K">>, <<"A","l">>),
                Anchor(<<"/","m","/","h","o","l","d","i","n","g","s",".","p","h","p","?","m","=","A","K","O">>, <<"B","o">>),
                Anchor(<<"h","t","t","p","s",":","/","/","w","w","w",".","d","a","t","a","r","o","m","a",".","c","o","m","/","m","/","h","o","l","d","i","n","g","s",".","p","h","p","?","m","=","B","R","K">>, <<"A","l","2">>),
                Anchor(<<"/","m","/","h","o","l","d","i","n","g","s",".","p","h","p","?","m","=","X">>, <<>>)}
IndexPages == {Page(as, <<>>, <<>>) : as \in SeqsUpTo(MainAnchors, MaxIndexAnchors)}

RealHeader == <<Th(<<"H","i","s","t","o","r","y">>), Th(<<"S","t","o","c","k">>), Th(<<"%"," ","o","f"," ","P","o","r","t","f","o","l","i","o">>),
                Th(<<"R","e","c","e","n","t"," ","A","c","t","i","v","i","t","y">>), Th(<<"S","h","a","r","e","s">>), Th(<<"R","e","p","o","r","t","e","d"," ","P","r","i","c","e","*">>)>>
RowReal(stock, pct, activity, price) ==
    <<Td(<<>>), Td(stock), Td(pct), Td(activity), Td(<<"1","0">>), Td(price)>>
PageOneBuy == Page(<<>>, <<<<"P","e","r","i","o","d",":"," ","Q","4"," ","2","0","2","5">>>>,
                   <<Table(<<"g","r","i","d">>, <<>>,
                           <<RealHeader,
                             RowReal(<<"A","p","p","l","e"," ","I","n","c"," ","-"," ","A","A","P","L">>, <<"5",".","2","%">>, <<"B","u","y">>, <<"$","1","5","0",".","0","0">>),
                             RowReal(<<"C","o","c","a","-","C","o","l","a"," ","C","o"," ","-"," ","K","O">>, <<"2","%">>, <<"S","e","l","l">>, <<"$","6","0">>)>>)>>)
PageTwoAdds == Page(<<>>, <<<<"P","o","r","t","f","o","l","i","o"," ","d","a","t","e",":"," ","3","1"," ","D","e","c"," ","2","0","2","5">>>>,
                    <<Table(<<>>, <<"h","o","l","d","i","n","g","s">>,
                            <<RealHeader,
                              RowReal(<<"V","i","s","a"," ","-"," ","V">>, <<"1","%">>, <<"A","d","d"," ","2","%">>, <<"$","3","0","0">>),
                              RowReal(<<"A","l","p","h","a"," ","-"," ","B","E","T","A"," ","C","o","r","p">>, <<"2","%">>, <<"A","D","D">>, <<"$","5">>)>>)>>)
PageOtherPeriod == Page(<<>>, <<<<"P","e","r","i","o","d",":"," ","Q","3"," ","2","0","2","5">>>>,
                        <<Table(<<"g","r","i","d">>, <<>>,
                                <<RealHeader,
                                  RowReal(<<"A","p","p","l","e"," ","I","n","c"," ","-"," ","A","A","P","L">>, <<"5",".","2","%">>, <<"B","u","y">>,
                                          <<"$","1","5","0",".","0","0">>)>>)>>)
PageNoTable == Page(<<>>, <<<<"Q","4"," ","2","0","2","5">>>>, <<Table(<<>>, <<>>, <<<<Th(<<"N","a","m","e">>)>>>>)>>)
PageOnlySells == Page(<<>>, <<<<"1","2","/","3","1","/","2","0","2","5">>>>,
                      <<Table(<<>>, <<>>,
                              <<<<Th(<<"S","t","o","c","k">>), Th(<<"R","e","c","e","n","t"," ","A","c","t","i","v","i","t","y">>), Th(<<"V","a","l","u","e">>)>>,
                                <<Td(<<"V","i","s","a"," ","-"," ","V">>), Td(<<"S","e","l","l">>), Td(<<"1">>)>>>>)>>)
DetailPages == {PageOneBuy, PageTwoAdds, PageOtherPeriod, PageNoTable, PageOnlySells}

(***************************************************************************)
(* The run of main.  pc is the position in main; i is the number of        *)
(* managers the loop of line 241 has visited; requests is the sequence of  *)
(* session.get calls with what each produced; log holds the outcome lines  *)
(* printed; files holds the sheets written; exit_code is <<>> while the    *)
(* process runs.                                                           *)
(***************************************************************************)
Init ==
    /\ pc = "start"
    /\ soup = NoSoup
    /\ manager_name = <<>>
    /\ managers = <<>>
    /\ i = 0
    /\ all_records = <<>>
    /\ q4_count = 0
    /\ skip_count = 0
    /\ records = <<>>
    /\ accepted = FALSE
    /\ log = <<>>
    /\ requests = <<>>
    /\ files = <<>>
    /\ summary = <<>>
    /\ exit_code = <<>>

\* Lines 51-54: the index page cannot be fetched.
IndexFetchFails ==
    /\ pc = "start"
    /\ requests' = Append(requests, Failed(MANAGERS_URL))
    /\ log' = Append(log, "FATAL")
    /\ exit_code' = <<1>>
    /\ pc' = "exited"
    /\ UNCHANGED <<soup, manager_name, managers, i, all_records, q4_count, skip_count,
                   records, accepted, files, summary>>

\* Lines 227-230: the index page yields no manager.
IndexEmpty ==
    /\ pc = "start"
    /\ \E page \in IndexPages :
         /\ no_managers(get_manager_links(page))
         /\ requests' = Append(requests, Fetched(MANAGERS_URL, page))
         /\ managers' = get_manager_links(page)
    /\ log' = Append(log, "FATAL")
    /\ exit_code' = <<1>>
    /\ pc' = "exited"
    /\ UNCHANGED <<soup, manager_name, i, all_records, q4_count, skip_count, records,
                   accepted, files, summary>>

\* Lines 227-239: the index page yields managers; the loop starts.
IndexCollected ==
    /\ pc = "start"
    /\ \E page \in IndexPages :
         /\ ~no_managers(get_manager_links(page))
         /\ requests' = Append(requests, Fetched(MANAGERS_URL, page))
         /\ managers' = get_manager_links(page)
    /\ all_records' = <<>>
    /\ q4_count' = 0
    /\ skip_count' = 0
    /\ i' = 0
    /\ pc' = "loop"
    /\ UNCHANGED <<soup, manager_name, records, accepted, log, files, summary,
                   exit_code>>

\* Lines 241-251: the detail page of the next manager cannot be fetched.
EntityFetchFails ==
    /\ pc = "loop"
    /\ ~loop_over(i, managers)
    /\ LET mgr == managers[i + 1]
       IN  /\ manager_name' = mgr.name
           /\ requests' = Append(requests, Failed(mgr.url))
    /\ log' = Append(log, "ERROR")
    /\ i' = i + 1
    /\ UNCHANGED <<pc, soup, managers, all_records, q4_count, skip_count, records,
                   accepted, files, summary, exit_code>>

\* Lines 241-256: the detail page is not of Q4 2025.
EntityNotQ4 ==
    /\ pc = "loop"
    /\ ~loop_over(i, managers)
    /\ \E page \in DetailPages :
         LET mgr == managers[i + 1]
         IN  /\ ~is_q4_2025(page)
             /\ manager_name' = mgr.name
             /\ requests' = Append(requests, Fetched(mgr.url, page))
             /\ soup' = page
    /\ accepted' = FALSE
    /\ log' = Append(log, "Skip")
    /\ skip_count' = skip_count + 1
    /\ i' = i + 1
    /\ UNCHANGED <<pc, managers, all_records, q4_count, records, files, summary,
                   exit_code>>

\* Lines 241-266: the detail page is of Q4 2025 and its table is parsed.
EntityParsed ==
    /\ pc = "loop"
    /\ ~loop_over(i, managers)
    /\ \E page \in DetailPages :
         LET mgr == managers[i + 1]
             recs == parse_holdings(page, mgr.name)
         IN  /\ is_q4_2025(page)
             /\ manager_name' = mgr.name
             /\ requests' = Append(requests, Fetched(mgr.url, page))
             /\ soup' = page
             /\ records' = recs
             /\ all_records' = all_records \o recs
             /\ q4_count' = q4_count_after(q4_count, recs)
             /\ log' = log \o (IF table_missing(page) THEN <<"WARN">> ELSE <<>>)
                           \o <<found_line(recs)>>
    /\ accepted' = TRUE
    /\ i' = i + 1
    /\ UNCHANGED <<pc, managers, skip_count, files, summary, exit_code>>

\* Lines 268-275: the loop is over and the counts are printed.
Summary ==
    /\ pc = "loop"
    /\ loop_over(i, managers)
    /\ summary' = <<[q4 |-> q4_count, skipped |-> skip_count,
                     total |-> Len(all_records)]>>
    /\ pc' = "export"
    /\ UNCHANGED <<soup, manager_name, managers, i, all_records, q4_count, skip_count,
                   records, accepted, log, requests, files, exit_code>>

\* Lines 277-290: the sheet is written, or not.
Export ==
    /\ pc = "export"
    /\ files' = IF should_export(all_records)
                THEN Append(files, export(all_records))
                ELSE files
    /\ log' = Append(log, IF should_export(all_records) THEN "Saved" ELSE "NoData")
    /\ exit_code' = <<0>>
    /\ pc' = "done"
    /\ UNCHANGED <<soup, manager_name, managers, i, all_records, q4_count, skip_count,
                   records, accepted, requests, summary>>

Next ==
    \/ IndexFetchFails
    \/ IndexEmpty
    \/ IndexCollected
    \/ EntityFetchFails
    \/ EntityNotQ4
    \/ EntityParsed
    \/ Summary
    \/ Export

Spec == Init /\ [][Next]_vars

\* main is one sequential process: each statement is reached and each request
\* returns or times out (line 37), so a step that can be taken is taken.
FairSpec == Spec /\ WF_vars(Next)

(***************************************************************************)
(* The functions alone, each applied to one input.                         *)
(***************************************************************************)
Idle ==
    /\ manager_name = <<>>
    /\ managers = <<>>
    /\ i = 0
    /\ all_records = <<>>
    /\ q4_count = 0
    /\ skip_count = 0
    /\ records = <<>>
    /\ accepted = FALSE
    /\ log = <<>>
    /\ requests = <<>>
    /\ files = <<>>
    /\ summary = <<>>
    /\ exit_code = <<>>

InitLinks == pc = "get_manager_links" /\ soup \in LinkPages /\ Idle

GetManagerLinks ==
    /\ pc = "get_manager_links"
    /\ managers' = get_manager_links(soup)
    /\ pc' = "returned"
    /\ UNCHANGED <<soup, manager_name, i, all_records, q4_count, skip_count, records,
                   accepted, log, requests, files, summary, exit_code>>

SpecLinks == InitLinks /\ [][GetManagerLinks]_vars

InitPeriod == pc = "is_q4_2025" /\ soup \in PeriodPages /\ Idle

IsQ4 ==
    /\ pc = "is_q4_2025"
    /\ accepted' = is_q4_2025(soup)
    /\ pc' = "returned"
    /\ UNCHANGED <<soup, manager_name, managers, i, all_records, q4_count, skip_count,
                   records, log, requests, files, summary, exit_code>>

SpecPeriod == InitPeriod /\ [][IsQ4]_vars

InitHoldings == pc = "parse_holdings" /\ soup \in HoldingsPages /\ Idle

\* Lines 259-261 for one accepted page.
ParseHoldings ==
    /\ pc = "parse_holdings"
    /\ records' = parse_holdings(soup, manager_name)
    /\ all_records' = all_records \o records'
    /\ log' = log \o (IF table_missing(soup) THEN <<"WARN">> ELSE <<>>)
    /\ pc' = "returned"
    /\ UNCHANGED <<soup, manager_name, managers, i, q4_count, skip_count, accepted,
                   requests, files, summary, exit_code>>

SpecHoldings == InitHoldings /\ [][ParseHoldings]_vars

(***************************************************************************)
(* Properties.                                                             *)
(***************************************************************************)
\* The requests of detail pages made so far (all but the index request).
DetailRequests == 2..Len(requests)
FailedRequests == {k \in DetailRequests : ~requests[k].ok}
AcceptedRequests ==
    {k \in DetailRequests : requests[k].ok /\ is_q4_2025(requests[k].page)}
RejectedRequests ==
    {k \in DetailRequests : requests[k].ok /\ ~is_q4_2025(requests[k].page)}
Visited == [k \in 1..(Len(requests) - 1) |-> requests[k + 1].url]
ManagerUrls == [k \in 1..Len(managers) |-> managers[k].url]

\* C1: every manager whose detail page cannot be fetched is counted in the
\* skipped count of the summary (with the managers the period filter
\* rejects), and the run goes on with the next manager.
C1_FetchFailureIsCountedSkipped ==
    /\ FailedRequests # {} => pc # "exited"
    /\ summary # <<>> =>
         summary[1].skipped = Cardinality(FailedRequests \cup RejectedRequests)

\* C2: once the index yielded managers, the run reaches the summary and the
\* export stage, having requested the page of every manager once, in the
\* order of the index, whatever each request and page turned out to be.
C2_RunReachesSummary ==
    (pc = "loop") ~> (pc = "done" /\ summary # <<>> /\ Visited = ManagerUrls)

\* A finished run over two managers whose first page could not be fetched.
C2_Witness ==
    /\ pc = "done"
    /\ Len(managers) = 2
    /\ Visited = ManagerUrls
    /\ ~requests[2].ok
    /\ requests[3].ok

\* C3: when the index page cannot be fetched or yields no manager, the
\* process exits with code 1 at once: no detail page is requested, no
\* summary is printed and no file is written.
C3_FatalIndex ==
    LET fetch_failed == requests # <<>> /\ ~requests[1].ok
        no_entity == requests # <<>> /\ requests[1].ok /\ managers = <<>>
    IN  (fetch_failed \/ no_entity) =>
          /\ pc = "exited"
          /\ exit_code = <<1>>
          /\ Len(requests) = 1
          /\ summary = <<>>
          /\ files = <<>>

\* The index page was fetched, had anchors, and yielded no manager.
C3_Witness ==
    /\ pc = "exited"
    /\ requests[1].ok
    /\ requests[1].page.anchors # <<>>
    /\ managers = <<>>

\* C4: a file is written iff the accumulated records are not empty; it is
\* written once, after every manager was visited, holds exactly the
\* accumulated records, with the columns Manager, Stock, Ticker, Recent
\* Activity, Portfolio %, Reported Price; with no record the run ends with
\* no file and exit code 0.
C4_ExportIffRecords ==
    /\ pc # "done" => files = <<>>
    /\ pc = "done" =>
         /\ exit_code = <<0>>
         /\ Visited = ManagerUrls
         /\ IF all_records = <<>> THEN files = <<>>
            ELSE /\ Len(files) = 1
                 /\ files[1].name = OUTPUT_FILE
                 /\ files[1].columns = <<"Manager", "Stock", "Ticker",
                                         "Recent Activity", "Portfolio %",
                                         "Reported Price">>
                 /\ Len(files[1].rows) = Len(all_records)
                 /\ \A k \in 1..Len(all_records) :
                      \A j \in 1..6 :
                        files[1].rows[k][j] = all_records[k][files[1].columns[j]]

\* A finished run that wrote a file of at least two records.
C4_Witness == pc = "done" /\ Len(files) = 1 /\ Len(all_records) >= 2

\* The statement of C5 for the anchors as: one manager per distinct URL of
\* as, in the order of first appearance, named after the first anchor of as
\* with that URL.
FirstWithUrl(as, url) == SetMin({k \in 1..Len(as) : full_url(as[k].href) = url})
OnePerUrl(as) ==
    LET urls == {full_url(as[k].href) : k \in 1..Len(as)}
    IN  /\ Len(managers) = Cardinality(urls)
        /\ {managers[j].url : j \in 1..Len(managers)} = urls
        /\ \A j \in 1..Len(managers) :
             managers[j].name = link_name(as[FirstWithUrl(as, managers[j].url)])
        /\ \A j, k \in 1..Len(managers) :
             j < k => FirstWithUrl(as, managers[j].url) < FirstWithUrl(as, managers[k].url)

NamedLinks(page) == SelectSeq(select_links(page), LAMBDA a : link_name(a) # <<>>)

\* C5 as stated: one manager per distinct URL of the anchors that match the
\* detail-link pattern, first seen first, named after the first such anchor.
C5_OnePerMatchingUrl == pc = "returned" => OnePerUrl(select_links(soup))

\* C5 as amended: the same, counting only the matching anchors whose
\* stripped text is not empty.
C5_OnePerNamedUrl == pc = "returned" => OnePerUrl(NamedLinks(soup))

\* Three matching anchors of one URL, the first without text.
C5_Witness ==
    /\ pc = "returned"
    /\ Len(select_links(soup)) = 3
    /\ link_name(select_links(soup)[1]) = <<>>
    /\ Len(NamedLinks(soup)) = 2
    /\ Len(managers) = 1

\* "buy" or "add" occurs in t in any case.
OccursIgnoringCase(t, word) ==
    \E p \in 0..(Len(t) - Len(word)) :
       \A k \in 1..Len(word) : LowerChar(t[p + k]) = word[k]
MentionsBuyOrAdd(t) == OccursIgnoringCase(t, <<"b","u","y">>) \/ OccursIgnoringCase(t, <<"a","d","d">>)

\* The table of the page parsed and the data rows expected to be emitted:
\* at least 3 cells and an activity cell that mentions buy or add.
ParsedTable == soup.tables[1]
TdCells(row) == SelectSeq(row, LAMBDA c : c.tag = "td")
ActivityIdx == Get(table_column_map(ParsedTable), "activity", DefaultActivityIdx)
ActivityOf(row) ==
    IF ActivityIdx < Len(TdCells(row))
    THEN get_text(cell_strings(TdCells(row)[ActivityIdx + 1]))
    ELSE <<>>
Qualifies(row) == Len(TdCells(row)) >= 3 /\ MentionsBuyOrAdd(ActivityOf(row))
QualifyingRows == SelectSeq(Tail(ParsedTable.rows), Qualifies)

\* C6: every accumulated record has an activity that mentions buy or add in
\* any case, and a data row with at least 3 cells is emitted iff its
\* activity cell does: the records are the qualifying rows, in order.
C6_OnlyBuyOrAdd ==
    /\ \A k \in 1..Len(all_records) :
         MentionsBuyOrAdd(all_records[k]["Recent Activity"])
    /\ pc = "returned" =>
         /\ Len(records) = Len(QualifyingRows)
         /\ \A k \in 1..Len(records) :
              records[k]["Recent Activity"] = ActivityOf(QualifyingRows[k])

\* Of a Sell row and an upper-case BUY row, the second alone was emitted.
C6_Witness ==
    /\ pc = "returned"
    /\ Tail(ParsedTable.rows) = <<RowSell, RowShort>>
    /\ ActivityOf(RowSell) = <<"S","e","l","l">>
    /\ Len(all_records) = 1
    /\ all_records[1]["Recent Activity"] = <<"B","U","Y">>

HasMention(page, mentions) == \E k \in 1..Len(page.texts) : page.texts[k] \in mentions

\* C7 as stated: a page is accepted iff its text mentions Q4 2025 or the
\* date 31 December 2025.
C7_OnlyTargetPeriod ==
    pc = "returned" => (accepted <=> HasMention(soup, TargetMentions))

\* C7 as amended: a page is accepted iff its text mentions Q4 2025, the 31st
\* or the 30th of December 2025, or a portfolio date in 2025-12.
C7_AcceptedMentions ==
    pc = "returned" =>
       (accepted <=> HasMention(soup, TargetMentions \cup OtherAcceptedMentions))

\* A page of another period and of 30 Dec 2025 was accepted.
C7_Witness ==
    /\ pc = "returned"
    /\ accepted
    /\ soup.texts = <<<<"Q","3"," ","2","0","2","5">>, <<"3","0"," ","D","e","c"," ","2","0","2","5">>>>

\* The records of the accepted requests up to request k, in order.
RECURSIVE RecordsUpTo(_)
RecordsUpTo(k) ==
    IF k < 2 THEN <<>>
    ELSE RecordsUpTo(k - 1)
           \o (IF k \in AcceptedRequests
               THEN parse_holdings(requests[k].page, managers[k - 1].name)
               ELSE <<>>)

\* C8: a manager whose page passes the period filter is counted once as a
\* Q4 2025 manager and not as skipped, with or without records; a manager
\* whose page is rejected is counted once as skipped and adds no record.
\* With two managers, the first accepted with one record and the second
\* rejected: one record, summary 1 and 1.
C8_CountsPerEntity ==
    /\ q4_count = Cardinality(AcceptedRequests)
    /\ skip_count = Cardinality(RejectedRequests)
    /\ all_records = RecordsUpTo(Len(requests))
    /\ summary # <<>> =>
         summary[1] = [q4 |-> q4_count, skipped |-> skip_count,
                       total |-> Len(all_records)]
    /\ (/\ pc = "done"
        /\ Len(managers) = 2
        /\ AcceptedRequests = {2}
        /\ RejectedRequests = {3}
        /\ Len(RecordsUpTo(2)) = 1) =>
         /\ Len(files[1].rows) = 1
         /\ summary[1] = [q4 |-> 1, skipped |-> 1, total |-> 1]

\* A finished run of two managers: the first accepted with one record, the
\* second rejected by the period filter.
C8_Witness ==
    /\ pc = "done"
    /\ Len(managers) = 2
    /\ AcceptedRequests = {2}
    /\ RejectedRequests = {3}
    /\ Len(all_records) = 1

ParsedHeaders == header_texts(ParsedTable.rows[1])
ParsedColumnMap == table_column_map(ParsedTable)
ReportedPriceHeaders ==
    {k \in 1..Len(ParsedHeaders) :
        Contains(ParsedHeaders[k], <<"r","e","p","o","r","t","e","d">>) /\ Contains(ParsedHeaders[k], <<"p","r","i","c","e">>)}
PriceHeaders == {k \in 1..Len(ParsedHeaders) : Contains(ParsedHeaders[k], <<"p","r","i","c","e">>)}

\* C9: price is mapped only to a header that contains "price"; with a
\* reported-price header and a generic price header, price is the
\* reported-price header in either order; with no price header the price is
\* read at index 5, and is empty when the row is shorter.
C9_PriceColumn ==
    pc = "returned" =>
      /\ "price" \in DOMAIN ParsedColumnMap =>
            (ParsedColumnMap["price"] + 1) \in PriceHeaders
      /\ (ReportedPriceHeaders # {} /\ PriceHeaders # ReportedPriceHeaders) =>
            (ParsedColumnMap["price"] + 1) \in ReportedPriceHeaders
      /\ PriceHeaders = {} =>
            \A k \in 1..Len(records) :
               records[k]["Reported Price"] =
                  cell_text(TdCells(QualifyingRows[k]), DefaultPriceIdx)

\* The value of the sym parameter of a URL, as a sequence of length 0 or 1.
SymParam(href) ==
    LET starts == {p \in 1..Len(href) :
                      /\ href[p] \in {"?", "&"}
                      /\ p + 4 <= Len(href)
                      /\ SubSeq(href, p + 1, p + 4) = <<"s","y","m","=">>}
    IN  IF starts = {} THEN <<>>
        ELSE LET from == SetMin(starts) + 5
                 ends == {e \in from..Len(href) : href[e] = "&"}
             IN  <<SubSeq(href, from, IF ends = {} THEN Len(href) ELSE SetMin(ends) - 1)>>

\* The upper-case token of 1 to 5 letters that ends the text after a dash,
\* as a sequence of length 0 or 1.
TrailingToken(text) ==
    LET lens == {n \in 1..MaxTickerLen :
                   /\ n < Len(text)
                   /\ \A k \in (Len(text) - n + 1)..Len(text) : text[k] \in UpperSet
                   /\ \E d \in 1..(Len(text) - n) :
                        /\ text[d] \in {"-", "ndash"}
                        /\ \A k \in (d + 1)..(Len(text) - n) : text[k] \in SpaceSet}
    IN  IF lens = {} THEN <<>>
        ELSE <<SubSeq(text, Len(text) - SetMax(lens) + 1, Len(text))>>

ClaimedTicker(row) ==
    LET cells == TdCells(row)
        stock_idx == Get(ParsedColumnMap, "stock", DefaultStockIdx)
        links == IF stock_idx < Len(cells) THEN cells[stock_idx + 1].a ELSE <<>>
        sym == IF links = <<>> THEN <<>> ELSE SymParam(links[1].href)
        token == TrailingToken(stock_text_of(cells, ParsedColumnMap))
    IN  IF sym # <<>> THEN upper(sym[1])
        ELSE IF token # <<>> THEN token[1]
        ELSE <<>>

\* C10: the ticker of an emitted row is the upper-cased sym parameter of the
\* stock link when there is one, else the upper-case token of 1 to 5
\* letters that ends the stock text after a dash, else empty.
C10_Ticker ==
    pc = "returned" =>
      /\ Len(records) = Len(QualifyingRows)
      /\ \A k \in 1..Len(records) :
           records[k]["Ticker"] = ClaimedTicker(QualifyingRows[k])

====
